---- MODULE Spec2Model ----
(***************************************************************************)
(* Eco-habits bot (src/bot.py): the SQLite store (users, checkins), the    *)
(* aiogram handlers that read and write it, and the evening reminder.      *)
(*                                                                         *)
(* Conventions.  Python None is the string "None".  The class names of     *)
(* CLASSES are transliterated to ASCII ("6V", "6G").  A calendar day is    *)
(* its proleptic ordinal (date.toordinal()), so isoformat()/fromordinal()  *)
(* round trips are the identity on the ordinal and ISO strings compare as  *)
(* the ordinals do.  The checkins table is a bag of rows: the uniqueness   *)
(* of (user_id, day, habit_key) is then a property of the operations that  *)
(* write it, not of the representation.  SQLite statements are assumed to  *)
(* succeed (no storage fault); sends to Telegram may fail where a handler  *)
(* survives the failure.                                                   *)
(***************************************************************************)
EXTENDS Bags, FiniteSets, Integers, Sequences, TLC

VARIABLES users, checkins, today, reply, tasks, ping, probe

vars == <<users, checkins, today, reply, tasks, ping, probe>>

\* What only the specifications of one concern use.
aux == <<tasks, ping, probe>>

(***************************************************************************)
(* Bounds of the model.                                                    *)
(***************************************************************************)
MaxUsers == 2
MaxMarks == 3
MaxToggles == 3
Today0 == 8

(***************************************************************************)
(* Program constants.                                                      *)
(***************************************************************************)
WindowDays == 7
WindowBack == 6
TopLimit == 3

None == "None"

CLASSES == <<"6V", "6G">>

HABITS == << <<"water_teeth", "Tap off while brushing teeth">>,
             <<"lights_off", "Lights off when leaving the room">>,
             <<"no_cup", "No disposable cup">>,
             <<"no_bag", "No plastic bag">>,
             <<"trash_place", "Litter in its place">>,
             <<"eco_move", "On foot / eco transport">> >>

Range(s) == {s[i] : i \in DOMAIN s}

(***************************************************************************)
(* Inputs of the model: Telegram user ids, the names a user may carry, and *)
(* the callback data (day, habit key) a toggle or done button may carry.   *)
(***************************************************************************)
UserIds == 1..MaxUsers

Names == {<<"ann", "Ann">>}

DayOld == Today0 - WindowDays

DayPrev == Today0 - 1

Days == {DayOld, Today0}

Keys == {HABITS[2][1]}

ClassData == Range(CLASSES) \cup {"7A"}

(***************************************************************************)
(* The store: init_db's two tables.                                        *)
(***************************************************************************)
EmptyUsers == [u \in {} |-> None]

UserRow(username, first_name, class_name, joined_at) ==
    [username |-> username, first_name |-> first_name,
     class_name |-> class_name, joined_at |-> joined_at]

CheckinRow(user_id, day, habit_key) ==
    [user_id |-> user_id, day |-> day, habit_key |-> habit_key]

\* Faulty variant: INSERT OR REPLACE, which writes the whole row again.
upsert_user_replace(U, user_id, username, first_name, now) ==
    [u \in DOMAIN U \cup {user_id} |->
        IF u = user_id THEN UserRow(username, first_name, None, now)
                       ELSE U[u]]

upsert_user(U, user_id, username, first_name, now) ==
    IF user_id \in DOMAIN U
    THEN [U EXCEPT ![user_id].username = username,
                   ![user_id].first_name = first_name]
    ELSE [u \in DOMAIN U \cup {user_id} |->
            IF u = user_id THEN UserRow(username, first_name, None, now)
                           ELSE U[u]]

set_user_class(U, user_id, class_name) ==
    IF user_id \in DOMAIN U
    THEN [U EXCEPT ![user_id].class_name = class_name]
    ELSE U

get_user_class(U, user_id) ==
    IF user_id \in DOMAIN U THEN U[user_id].class_name ELSE None

get_all_users(U) == DOMAIN U

\* Faulty variant: a plain INSERT into a table with no primary key.
InsertPlain(C, row) == C (+) SetToBag({row})

InsertOrIgnore(C, row) ==
    IF BagIn(row, C) THEN C ELSE C (+) SetToBag({row})

\* Faulty variant: a DELETE whose WHERE clause matches no row.
DeleteWhereNothing(C, row) == C

DeleteWhere(C, row) == [r \in DOMAIN C \ {row} |-> C[r]]

set_habit(C, user_id, day, habit_key, enabled) ==
    IF enabled THEN InsertOrIgnore(C, CheckinRow(user_id, day, habit_key))
               ELSE DeleteWhere(C, CheckinRow(user_id, day, habit_key))

get_user_day_habits(C, user_id, day) ==
    {r.habit_key : r \in {x \in DOMAIN C : x.user_id = user_id /\ x.day = day}}

(***************************************************************************)
(* Aggregation.  GROUP BY ... ORDER BY c DESC leaves the order of groups   *)
(* with equal counts to SQLite: every order is a possible result.          *)
(***************************************************************************)
GroupByHabit(J) ==
    {<<k, BagCardinality([r \in {x \in DOMAIN J : x.habit_key = k} |-> J[r]])>> :
        k \in {r.habit_key : r \in DOMAIN J}}

OrderByCountDesc(G) ==
    LET n == Cardinality(G)
    IN  {s \in [1..n -> G] :
            /\ \A i, j \in 1..n : i # j => s[i] # s[j]
            /\ \A i \in 1..n : i < n => s[i][2] >= s[i + 1][2]}

\* Faulty variant: COUNT(day) in place of COUNT(DISTINCT day).
get_user_stats_rows(C, user_id) ==
    LET Mine == [r \in {x \in DOMAIN C : x.user_id = user_id} |-> C[r]]
    IN  {[total |-> BagCardinality(Mine),
          days |-> BagCardinality(Mine),
          by_habit |-> b] : b \in OrderByCountDesc(GroupByHabit(Mine))}

get_user_stats(C, user_id) ==
    LET Mine == [r \in {x \in DOMAIN C : x.user_id = user_id} |-> C[r]]
    IN  {[total |-> BagCardinality(Mine),
          days |-> Cardinality({r.day : r \in DOMAIN Mine}),
          by_habit |-> b] : b \in OrderByCountDesc(GroupByHabit(Mine))}

\* params is the tuple bound to where_sql: <<>> for "" (no filter),
\* <<class_name>> for "WHERE users.class_name=?".
WhereClass(U, user_id, params) ==
    params = <<>> \/ U[user_id].class_name = params[1]

\* Faulty variant: the join without its where_sql.
JoinUsersUnfiltered(U, C, params) ==
    [r \in {x \in DOMAIN C : x.user_id \in DOMAIN U} |-> C[r]]

\* checkins JOIN users ON users.user_id = checkins.user_id {where_sql}
JoinUsers(U, C, params) ==
    [r \in {x \in DOMAIN C : x.user_id \in DOMAIN U
                              /\ WhereClass(U, x.user_id, params)} |-> C[r]]

\* Faulty variant: only the users that have a class are counted.
users_count_grouped(U, params) ==
    Cardinality({u \in DOMAIN U : /\ WhereClass(U, u, params)
                                   /\ U[u].class_name # None})

users_count(U, params) ==
    Cardinality({u \in DOMAIN U : WhereClass(U, u, params)})

get_group_stats(U, C, params) ==
    LET J == JoinUsers(U, C, params)
    IN  {[users_count |-> users_count(U, params),
          total_actions |-> BagCardinality(J),
          days_count |-> Cardinality({r.day : r \in DOMAIN J}),
          by_habit |-> b] : b \in OrderByCountDesc(GroupByHabit(J))}

\* Faulty variant: a window of eight days, starting seven days back.
days_list_wide(t) == [i \in 1..(WindowDays + 1) |-> (t - WindowDays) + (i - 1)]

\* Faulty variant: range(6), which stops at yesterday.
days_list_short(t) == [i \in 1..WindowBack |-> (t - WindowBack) + (i - 1)]

\* days_list of send_school_stats: today and the six days before it.
days_list(t) == [i \in 1..WindowDays |-> (t - WindowBack) + (i - 1)]

\* The rows of send_school_stats's query, before ORDER BY.
ClassRows(U, C, t) ==
    LET J == JoinUsers(U, C, <<>>)
        W == [r \in {x \in DOMAIN J : x.day \in Range(days_list(t))} |-> J[r]]
    IN  {<<c, BagCardinality([r \in {x \in DOMAIN W :
                                       U[x.user_id].class_name = c} |-> W[r]])>> :
            c \in {U[r.user_id].class_name : r \in DOMAIN W}}

\* top_class_line: <<class, count>>, or <<None, 0>> for "no data for the
\* last 7 days".
top_class_line(rows) ==
    IF rows # <<>> /\ rows[1][1] # None THEN <<rows[1][1], rows[1][2]>>
                                        ELSE <<None, 0>>

habit_label(key) ==
    IF \E i \in DOMAIN HABITS : HABITS[i][1] = key
    THEN HABITS[CHOOSE i \in DOMAIN HABITS :
                    /\ HABITS[i][1] = key
                    /\ \A j \in DOMAIN HABITS : HABITS[j][1] = key => i <= j][2]
    ELSE key

\* Faulty variant: the rows are not cut to by_habit[:limit].
format_top_habits_all(by_habit, limit) ==
    IF by_habit = <<>>
    THEN [placeholder |-> TRUE, lines |-> <<>>]
    ELSE [placeholder |-> FALSE,
          lines |-> [i \in 1..Len(by_habit) |->
                        <<habit_label(by_habit[i][1]), by_habit[i][2]>>]]

\* The text of format_top_habits: the "no data yet" placeholder, or one
\* line <<label, count>> for each of the first `limit` rows.
format_top_habits(by_habit, limit) ==
    IF by_habit = <<>>
    THEN [placeholder |-> TRUE, lines |-> <<>>]
    ELSE [placeholder |-> FALSE,
          lines |-> [i \in 1..(IF Len(by_habit) < limit THEN Len(by_habit)
                                                        ELSE limit) |->
                        <<habit_label(by_habit[i][1]), by_habit[i][2]>>]]

habits_kb(C, user_id, day_str) ==
    [day |-> day_str,
     checked |-> {HABITS[i][1] : i \in DOMAIN HABITS}
                    \cap get_user_day_habits(C, user_id, day_str)]

(***************************************************************************)
(* Handlers.  Each is one step: everything a handler reads or writes in    *)
(* the store happens before its first await, in one run of the event loop. *)
(* reply is what the handler sends back (the last handler's output).       *)
(***************************************************************************)
cmd_start(uid, username, first_name) ==
    LET U1 == upsert_user(users, uid, username, first_name, today)
    IN  /\ users' = U1
        /\ reply' = [kind |-> "start", user |-> uid,
                     markup |-> IF get_user_class(U1, uid) = None
                                THEN "class_pick" ELSE "main_menu"]
        /\ UNCHANGED <<checkins, today>>

cmd_help(uid) ==
    /\ reply' = [kind |-> "help", user |-> uid, markup |-> "main_menu"]
    /\ UNCHANGED <<users, checkins, today>>

cmd_setclass(uid, username, first_name) ==
    /\ users' = upsert_user(users, uid, username, first_name, today)
    /\ reply' = [kind |-> "setclass", user |-> uid, markup |-> "class_pick"]
    /\ UNCHANGED <<checkins, today>>

\* Faulty variant: upsert_user runs before the class is validated.
cb_setclass_upsert_first(uid, username, first_name, class_name) ==
    IF class_name \notin Range(CLASSES)
    THEN /\ users' = upsert_user(users, uid, username, first_name, today)
         /\ reply' = [kind |-> "class", user |-> uid, saved |-> FALSE,
                      class_name |-> class_name]
         /\ UNCHANGED <<checkins, today>>
    ELSE /\ users' = set_user_class(
                        upsert_user(users, uid, username, first_name, today),
                        uid, class_name)
         /\ reply' = [kind |-> "class", user |-> uid, saved |-> TRUE,
                      class_name |-> class_name]
         /\ UNCHANGED <<checkins, today>>

cb_setclass(uid, username, first_name, class_name) ==
    IF class_name \notin Range(CLASSES)
    THEN /\ reply' = [kind |-> "class", user |-> uid, saved |-> FALSE,
                      class_name |-> class_name]
         /\ UNCHANGED <<users, checkins, today>>
    ELSE /\ users' = set_user_class(
                        upsert_user(users, uid, username, first_name, today),
                        uid, class_name)
         /\ reply' = [kind |-> "class", user |-> uid, saved |-> TRUE,
                      class_name |-> class_name]
         /\ UNCHANGED <<checkins, today>>

cmd_checkin(uid, username, first_name) ==
    LET U1 == upsert_user(users, uid, username, first_name, today)
    IN  /\ users' = U1
        /\ reply' = IF get_user_class(U1, uid) = None
                    THEN [kind |-> "checkin", user |-> uid,
                          markup |-> "class_pick"]
                    ELSE [kind |-> "checkin", user |-> uid,
                          markup |-> "habits", day |-> today,
                          kb |-> habits_kb(checkins, uid, today)]
        /\ UNCHANGED <<checkins, today>>

\* Faulty variant: the statistics request clears the user's marks.
send_my_stats_reset(uid) ==
    /\ \E st \in get_user_stats(checkins, uid) :
          reply' = [kind |-> "my", user |-> uid, days |-> st.days,
                    total |-> st.total,
                    top |-> format_top_habits(st.by_habit, TopLimit)]
    /\ checkins' = [r \in {x \in DOMAIN checkins : x.user_id # uid} |->
                        checkins[r]]
    /\ UNCHANGED today

send_my_stats(uid) ==
    /\ \E st \in get_user_stats(checkins, uid) :
          reply' = [kind |-> "my", user |-> uid, days |-> st.days,
                    total |-> st.total,
                    top |-> format_top_habits(st.by_habit, TopLimit)]
    /\ UNCHANGED <<checkins, today>>

cmd_stats(uid, username, first_name) ==
    /\ users' = upsert_user(users, uid, username, first_name, today)
    /\ send_my_stats(uid)

menu_my_stats(uid) ==
    /\ send_my_stats(uid)
    /\ UNCHANGED users

\* Faulty variant: no `if not class_name` before the summary.
send_class_stats_unguarded(uid) ==
    LET class_name == get_user_class(users, uid)
    IN  /\ \E st \in get_group_stats(users, checkins, <<class_name>>) :
              reply' = [kind |-> "class_stats", user |-> uid,
                        markup |-> "main_menu",
                        class_name |-> class_name,
                        users_count |-> st.users_count,
                        days_count |-> st.days_count,
                        total_actions |-> st.total_actions,
                        top |-> format_top_habits(st.by_habit, TopLimit)]
        /\ UNCHANGED <<users, checkins, today>>

send_class_stats(uid) ==
    LET class_name == get_user_class(users, uid)
    IN  /\ IF class_name = None
           THEN reply' = [kind |-> "class_stats", user |-> uid,
                          markup |-> "class_pick"]
           ELSE \E st \in get_group_stats(users, checkins, <<class_name>>) :
                  reply' = [kind |-> "class_stats", user |-> uid,
                            markup |-> "main_menu",
                            class_name |-> class_name,
                            users_count |-> st.users_count,
                            days_count |-> st.days_count,
                            total_actions |-> st.total_actions,
                            top |-> format_top_habits(st.by_habit, TopLimit)]
        /\ UNCHANGED <<users, checkins, today>>

send_school_stats(uid) ==
    /\ \E st \in get_group_stats(users, checkins, <<>>) :
       \E rows \in OrderByCountDesc(ClassRows(users, checkins, today)) :
          reply' = [kind |-> "school", user |-> uid,
                    users_count |-> st.users_count,
                    days_count |-> st.days_count,
                    total_actions |-> st.total_actions,
                    top_class |-> top_class_line(rows),
                    top |-> format_top_habits(st.by_habit, TopLimit)]
    /\ UNCHANGED <<users, checkins, today>>

\* The toggle's read-modify-write: new_state and the table after set_habit.
new_state(C, user_id, day_str, key) ==
    key \notin get_user_day_habits(C, user_id, day_str)

\* Faulty variant: the toggle always enables.
toggle_write_on(C, user_id, day_str, key) ==
    set_habit(C, user_id, day_str, key, TRUE)

toggle_write(C, user_id, day_str, key) ==
    set_habit(C, user_id, day_str, key, new_state(C, user_id, day_str, key))

\* edit_ok: whether the await of edit_reply_markup returns; when it raises,
\* the handler ends without its answer.
cb_toggle(uid, day_str, key, edit_ok) ==
    LET C1 == toggle_write(checkins, uid, day_str, key)
    IN  /\ checkins' = C1
        /\ reply' = IF edit_ok
                    THEN [kind |-> "toggle", user |-> uid,
                          answer |-> IF new_state(checkins, uid, day_str, key)
                                     THEN "marked" ELSE "unmarked",
                          kb |-> habits_kb(C1, uid, day_str)]
                    ELSE [kind |-> "failed", user |-> uid]
        /\ UNCHANGED <<users, today>>

cb_done(uid, day_str) ==
    /\ reply' = [kind |-> "done", user |-> uid, day |-> day_str,
                 count |-> Cardinality(get_user_day_habits(checkins, uid, day_str))]
    /\ UNCHANGED <<users, checkins, today>>

(***************************************************************************)
(* The bot: any handler, for any user, in any order.                       *)
(***************************************************************************)
NoReply == [kind |-> "none"]

NoTasks == <<>>

IdlePing == [pc |-> "idle"]

NoProbe == [op |-> "none"]

Init ==
    /\ users = EmptyUsers
    /\ checkins = EmptyBag
    /\ today = Today0
    /\ reply = NoReply
    /\ tasks = NoTasks
    /\ ping = IdlePing
    /\ probe = NoProbe

Start ==
    \E u \in UserIds, n \in Names :
        cmd_start(u, n[1], n[2]) /\ UNCHANGED aux

Help == \E u \in UserIds : cmd_help(u) /\ UNCHANGED aux

SetClass ==
    \E u \in UserIds, n \in Names :
        cmd_setclass(u, n[1], n[2]) /\ UNCHANGED aux

ClassChosen ==
    \E u \in UserIds, n \in Names, c \in ClassData :
        cb_setclass(u, n[1], n[2], c) /\ UNCHANGED aux

Checkin ==
    \E u \in UserIds, n \in Names :
        cmd_checkin(u, n[1], n[2]) /\ UNCHANGED aux

Stats ==
    \E u \in UserIds, n \in Names :
        cmd_stats(u, n[1], n[2]) /\ UNCHANGED aux

MenuMyStats == \E u \in UserIds : menu_my_stats(u) /\ UNCHANGED aux

MenuClassStats == \E u \in UserIds : send_class_stats(u) /\ UNCHANGED aux

MenuSchoolStats == \E u \in UserIds : send_school_stats(u) /\ UNCHANGED aux

Toggle ==
    \E u \in UserIds, d \in Days, k \in Keys, ok \in BOOLEAN :
        /\ new_state(checkins, u, d, k) => BagCardinality(checkins) < MaxMarks
        /\ cb_toggle(u, d, k, ok)
        /\ UNCHANGED aux

Done == \E u \in UserIds, d \in Days : cb_done(u, d) /\ UNCHANGED aux

Next ==
    \/ Start
    \/ Help
    \/ SetClass
    \/ ClassChosen
    \/ Checkin
    \/ Stats
    \/ MenuMyStats
    \/ MenuClassStats
    \/ MenuSchoolStats
    \/ Toggle
    \/ Done

Spec == Init /\ [][Next]_vars

(***************************************************************************)
(* The school statistics on a store with several in-window days: first     *)
(* contact, class selection, toggles and the two group summaries.          *)
(***************************************************************************)
SchoolDays == {DayOld, DayPrev, Today0}

SchoolToggle ==
    \E u \in UserIds, d \in SchoolDays, k \in Keys :
        /\ new_state(checkins, u, d, k) => BagCardinality(checkins) < MaxMarks
        /\ cb_toggle(u, d, k, TRUE)
        /\ UNCHANGED aux

SchoolClassChosen ==
    \E u \in UserIds, n \in Names, c \in Range(CLASSES) :
        cb_setclass(u, n[1], n[2], c) /\ UNCHANGED aux

\* The school summary is asked for when no two classes (None included) have
\* the same in-window count, so that the result rests on no tie-break.
SchoolStatsUntied ==
    /\ \A r1, r2 \in ClassRows(users, checkins, today) :
          r1 # r2 => r1[2] # r2[2]
    /\ MenuSchoolStats

NextSchool ==
    \/ Start
    \/ SchoolClassChosen
    \/ SchoolToggle
    \/ MenuClassStats
    \/ SchoolStatsUntied

SpecSchool == Init /\ [][NextSchool]_vars

(***************************************************************************)
(* Toggles handled concurrently.  aiogram runs each update's handler as a  *)
(* task of one event loop: a handler runs from one await to the next       *)
(* without interruption.  cb_toggle has two such segments: up to the await *)
(* of edit_reply_markup (read, write, and the keyboard built for the       *)
(* edit), and from its return to the answer.  tasks holds the handlers in  *)
(* the order their updates arrived, each with what it read, wrote and      *)
(* sent.                                                                   *)
(***************************************************************************)
RaceDays == {Today0}

TaskTriple(t) == <<tasks[t].uid, tasks[t].day, tasks[t].key>>

\* The tasks past their write, and the order of the writes.
Written == {t \in DOMAIN tasks : tasks[t].pc # "ready"}

InFlight == {t \in DOMAIN tasks : tasks[t].pc \in {"ready", "edit"}}

\* arrived: whether the mark existed when the update arrived.
cb_toggle_recv(uid, day_str, key) ==
    /\ tasks' = Append(tasks, [uid |-> uid, day |-> day_str, key |-> key,
                               pc |-> "ready",
                               arrived |-> key \in get_user_day_habits(
                                               checkins, uid, day_str),
                               seen |-> FALSE,
                               new_state |-> FALSE, order |-> 0,
                               raced |-> FALSE, kb |-> {}, answer |-> "-"])
    /\ UNCHANGED <<users, checkins, today, reply>>

\* Faulty variant: the read is made when the update arrives and the write after an
\* await, so that another toggle may run between them.
key_selected_on_arrival(t) == tasks[t].arrived

\* Whether task t's key is in the `selected` it reads: the read and the
\* write are in the same segment.
key_selected(t) ==
    tasks[t].key \in get_user_day_habits(checkins, tasks[t].uid, tasks[t].day)

cb_toggle_write(t) ==
    LET uid == tasks[t].uid
        day_str == tasks[t].day
        key == tasks[t].key
        C1 == set_habit(checkins, uid, day_str, key, ~key_selected(t))
    IN  /\ tasks[t].pc = "ready"
        /\ checkins' = C1
        /\ tasks' = [tasks EXCEPT
              ![t].pc = "edit",
              ![t].seen = key_selected(t),
              ![t].new_state = ~key_selected(t),
              ![t].order = Cardinality(Written) + 1,
              ![t].raced = \E o \in InFlight \ {t} : TaskTriple(o) = TaskTriple(t),
              ![t].kb = habits_kb(C1, uid, day_str).checked]
        /\ UNCHANGED <<users, today, reply>>

\* The answer is recorded in the task, next to the keyboard it sent.
cb_toggle_answer(t, edit_ok) ==
    /\ tasks[t].pc = "edit"
    /\ tasks' = IF edit_ok
                THEN [tasks EXCEPT ![t].pc = "done",
                                   ![t].answer = IF tasks[t].new_state
                                                 THEN "marked" ELSE "unmarked"]
                ELSE [tasks EXCEPT ![t].pc = "failed"]
    /\ UNCHANGED <<users, checkins, today, reply>>

RaceRecv ==
    \E u \in UserIds, d \in RaceDays, k \in Keys :
        /\ Len(tasks) < MaxToggles
        /\ cb_toggle_recv(u, d, k)
        /\ UNCHANGED <<ping, probe>>

RaceWrite ==
    \E t \in DOMAIN tasks : cb_toggle_write(t) /\ UNCHANGED <<ping, probe>>

RaceAnswer ==
    \E t \in DOMAIN tasks, ok \in BOOLEAN :
        cb_toggle_answer(t, ok) /\ UNCHANGED <<ping, probe>>

NextRace ==
    \/ RaceRecv
    \/ RaceWrite
    \/ RaceAnswer

SpecRace == Init /\ [][NextRace]_vars

(***************************************************************************)
(* The store operations on their own: from any checkins table the toggles  *)
(* can build, set_habit or the toggle is applied to one (user, day, habit) *)
(* twice in a row.  probe remembers the table before the first call and    *)
(* after it.                                                               *)
(***************************************************************************)
Triples == UserIds \X Days \X Keys

TableOf(S) == SetToBag({CheckinRow(tr[1], tr[2], tr[3]) : tr \in S})

InitStore ==
    /\ users = EmptyUsers
    /\ checkins \in {TableOf(S) : S \in SUBSET Triples}
    /\ today = Today0
    /\ reply = NoReply
    /\ tasks = NoTasks
    /\ ping = IdlePing
    /\ probe = NoProbe

Probed(op, arg) ==
    /\ probe.op \in {"none", op}
    /\ probe.op = op => (probe.calls < 2 /\ probe.arg = arg)
    /\ probe' = [op |-> op, arg |-> arg,
                 calls |-> IF probe.op = op THEN probe.calls + 1 ELSE 1,
                 before |-> IF probe.op = op THEN probe.before ELSE checkins,
                 once |-> IF probe.op = op THEN probe.once ELSE checkins']

SetHabitTwice ==
    \E u \in UserIds, d \in Days, k \in Keys, enabled \in BOOLEAN :
        /\ checkins' = set_habit(checkins, u, d, k, enabled)
        /\ Probed("set_habit", <<u, d, k, enabled>>)
        /\ UNCHANGED <<users, today, reply, tasks, ping>>

ToggleTwice ==
    \E u \in UserIds, d \in Days, k \in Keys, ok \in BOOLEAN :
        /\ cb_toggle(u, d, k, ok)
        /\ Probed("toggle", <<u, d, k>>)
        /\ UNCHANGED <<tasks, ping>>

NextStore ==
    \/ SetHabitTwice
    \/ ToggleTwice

SpecStore == InitStore /\ [][NextStore]_vars

(***************************************************************************)
(* The evening reminder.  evening_ping reads the date and the user list    *)
(* once, then visits the listed users one by one; each visit ends in the   *)
(* await of a send, during which other handlers run.  A send that raises   *)
(* is caught and logged inside the loop.  ping.sent[u] lists the prompts   *)
(* whose send was attempted for u in the current run; ping.dirty tells     *)
(* whether the users table changed since the run began.                    *)
(***************************************************************************)
evening_ping_start ==
    /\ ping.pc \in {"idle", "done"}
    /\ ping' = [pc |-> "running", day_str |-> today,
                listed |-> get_all_users(users),
                pending |-> get_all_users(users),
                sent |-> [u \in get_all_users(users) |-> <<>>],
                dirty |-> FALSE]
    /\ UNCHANGED <<users, checkins, today, reply>>

\* Faulty variant: no `continue` after the class prompt.
visit_prompts_fallthrough(U, C, uid, day_str) ==
    (IF get_user_class(U, uid) = None THEN << [markup |-> "class_pick"] >>
                                      ELSE << >>)
    \o << [markup |-> "habits", day |-> day_str,
           kb |-> habits_kb(C, uid, day_str)] >>

\* The prompts one iteration of the loop sends for uid.
visit_prompts(U, C, uid, day_str) ==
    IF get_user_class(U, uid) = None
    THEN << [markup |-> "class_pick"] >>
    ELSE << [markup |-> "habits", day |-> day_str,
             kb |-> habits_kb(C, uid, day_str)] >>

\* Faulty variant: no try/except around the send.
after_failure_raise(pc) == "crashed"

\* What a failed send does to the run: the except clause logs it and the
\* loop goes on.
after_failure(pc) == pc

\* Faulty variant: every iteration reads date.today() again.
evening_ping_visit_today(uid, send_ok) ==
    /\ ping.pc = "running"
    /\ uid \in ping.pending
    /\ ping' = [ping EXCEPT
          !.pc = IF send_ok THEN @ ELSE after_failure(@),
          !.pending = @ \ {uid},
          !.sent[uid] = @ \o [i \in DOMAIN visit_prompts(users, checkins, uid,
                                                       today) |->
                                [prompt |-> visit_prompts(users, checkins, uid,
                                                          today)[i],
                                 ok |-> send_ok]]]
    /\ UNCHANGED <<users, checkins, today, reply>>

evening_ping_visit(uid, send_ok) ==
    /\ ping.pc = "running"
    /\ uid \in ping.pending
    /\ ping' = [ping EXCEPT
          !.pc = IF send_ok THEN @ ELSE after_failure(@),
          !.pending = @ \ {uid},
          !.sent[uid] = @ \o [i \in DOMAIN visit_prompts(users, checkins, uid,
                                                       ping.day_str) |->
                                [prompt |-> visit_prompts(users, checkins, uid,
                                                          ping.day_str)[i],
                                 ok |-> send_ok]]]
    /\ UNCHANGED <<users, checkins, today, reply>>

evening_ping_return ==
    /\ ping.pc = "running"
    /\ ping.pending = {}
    /\ ping' = [ping EXCEPT !.pc = "done"]
    /\ UNCHANGED <<users, checkins, today, reply>>

\* A handler that runs while the reminder awaits a send, or after the run.
Meanwhile ==
    ping' = IF ping.pc \in {"running", "done"} /\ users' # users
            THEN [ping EXCEPT !.dirty = TRUE] ELSE ping

PingStart == evening_ping_start /\ UNCHANGED <<tasks, probe>>

PingVisit ==
    \E u \in UserIds, ok \in BOOLEAN :
        evening_ping_visit(u, ok) /\ UNCHANGED <<tasks, probe>>

PingReturn == evening_ping_return /\ UNCHANGED <<tasks, probe>>

PingUserStart ==
    \E u \in UserIds, n \in Names :
        cmd_start(u, n[1], n[2]) /\ Meanwhile /\ UNCHANGED <<tasks, probe>>

PingClassChosen ==
    \E u \in UserIds, n \in Names, c \in Range(CLASSES) :
        cb_setclass(u, n[1], n[2], c) /\ Meanwhile /\ UNCHANGED <<tasks, probe>>

PingRun == PingVisit \/ PingReturn

NextPing ==
    \/ PingStart
    \/ PingVisit
    \/ PingReturn
    \/ PingUserStart
    \/ PingClassChosen

SpecPing == Init /\ [][NextPing]_vars

\* The event loop keeps running the reminder's coroutine: every send
\* returns or raises.
FairSpecPing == SpecPing /\ WF_vars(PingRun)

(***************************************************************************)
(* The statistics views on their own: from a checkins table with marks of  *)
(* several habits on several days, owned by a user that is registered in a *)
(* class or was never registered, any user asks for each of the three      *)
(* summaries.                                                              *)
(***************************************************************************)
TopKeys == {HABITS[i][1] : i \in 1..(TopLimit + 1)}

TopDays == {DayPrev, Today0}

TopTriples == {tr \in UserIds \X TopDays \X TopKeys : tr[1] = 1}

TopUsers ==
    {EmptyUsers,
     set_user_class(upsert_user(EmptyUsers, 1, "ann", "Ann", Today0),
                    1, CLASSES[1])}

InitTop ==
    /\ users \in TopUsers
    /\ checkins \in {TableOf(S) : S \in SUBSET TopTriples}
    /\ today = Today0
    /\ reply = NoReply
    /\ tasks = NoTasks
    /\ ping = IdlePing
    /\ probe = NoProbe

NextTop ==
    \/ MenuMyStats
    \/ MenuClassStats
    \/ MenuSchoolStats

SpecTop == InitTop /\ [][NextTop]_vars

(***************************************************************************)
(* The users table over time: the handlers that write it, for users whose  *)
(* Telegram names change between updates, the handlers that only read the  *)
(* store, and the clock (datetime.now() of upsert_user, date.today() of    *)
(* the handlers), which moves on to the next day.                          *)
(***************************************************************************)
UserNames == Names \cup {<<None, "Anna">>}

DayNext == Today0 + 1

Tick ==
    /\ today < DayNext
    /\ today' = today + 1
    /\ UNCHANGED <<users, checkins, reply, tasks, ping, probe>>

UserStart ==
    \E u \in UserIds, n \in UserNames :
        cmd_start(u, n[1], n[2]) /\ UNCHANGED aux

UserSetClass ==
    \E u \in UserIds, n \in UserNames :
        cmd_setclass(u, n[1], n[2]) /\ UNCHANGED aux

UserClassChosen ==
    \E u \in UserIds, n \in UserNames, c \in ClassData :
        cb_setclass(u, n[1], n[2], c) /\ UNCHANGED aux

UserCheckin ==
    \E u \in UserIds, n \in UserNames :
        cmd_checkin(u, n[1], n[2]) /\ UNCHANGED aux

UserStats ==
    \E u \in UserIds, n \in UserNames :
        cmd_stats(u, n[1], n[2]) /\ UNCHANGED aux

NextUser ==
    \/ Tick
    \/ UserStart
    \/ UserSetClass
    \/ UserClassChosen
    \/ UserCheckin
    \/ UserStats
    \/ Help
    \/ MenuMyStats
    \/ MenuClassStats
    \/ MenuSchoolStats
    \/ Done

SpecUser == Init /\ [][NextUser]_vars

(***************************************************************************)
(* Class selection on a store with marks: first contact, the class         *)
(* callback with any callback data, and toggles.                           *)
(***************************************************************************)
NextSelect ==
    \/ Start
    \/ ClassChosen
    \/ Toggle

SpecSelect == Init /\ [][NextSelect]_vars

(***************************************************************************)
(* The three places that need the user's class: the check-in request, the  *)
(* class summary and the reminder's visit, with first contact and class    *)
(* selection going on between them.                                        *)
(***************************************************************************)
NextGroup ==
    \/ Start
    \/ SchoolClassChosen
    \/ Checkin
    \/ MenuClassStats
    \/ PingStart
    \/ PingVisit
    \/ PingReturn

SpecGroup == Init /\ [][NextGroup]_vars

(***************************************************************************)
(* The operations that only read the store (the three summaries, check-in  *)
(* done, the reminder) running among writers: first contact, /stats with   *)
(* its upsert, and toggles of today's mark.  The store starts empty or     *)
(* with one user registered in a class.                                    *)
(***************************************************************************)
InitRead ==
    /\ users \in TopUsers
    /\ checkins = EmptyBag
    /\ today = Today0
    /\ reply = NoReply
    /\ tasks = NoTasks
    /\ ping = IdlePing
    /\ probe = NoProbe

ReadToggle ==
    \E u \in UserIds, k \in Keys :
        /\ new_state(checkins, u, today, k) => BagCardinality(checkins) < MaxMarks
        /\ cb_toggle(u, today, k, TRUE)
        /\ UNCHANGED aux

ReadDone == \E u \in UserIds : cb_done(u, today) /\ UNCHANGED aux

NextRead ==
    \/ Start
    \/ ReadToggle
    \/ Stats
    \/ MenuMyStats
    \/ MenuClassStats
    \/ MenuSchoolStats
    \/ ReadDone
    \/ PingStart
    \/ PingVisit
    \/ PingReturn

SpecRead == InitRead /\ [][NextRead]_vars

(***************************************************************************)
(* The reminder around midnight: the date changes while a run is in        *)
(* progress, and users register, choose a class and ask for the check-in   *)
(* (which reads the date itself) between the run's sends.                  *)
(***************************************************************************)
NextNight ==
    \/ Tick
    \/ Start
    \/ SchoolClassChosen
    \/ Checkin
    \/ PingStart
    \/ PingVisit
    \/ PingReturn

SpecNight == Init /\ [][NextNight]_vars

(***************************************************************************)
(* The school summary at the edges of its window: the store holds marks    *)
(* dated seven and six days before the day the model starts on, on that    *)
(* day and on the day after (a toggle carries whatever day its button      *)
(* names), and the summary is asked for on that day or the next.           *)
(***************************************************************************)
EdgeDays == {DayOld, DayOld + 1, Today0, DayNext}

EdgeTriples == UserIds \X EdgeDays \X Keys

\* User 1 in the first class; user 2 unknown, or in the second class.
EdgeUsers ==
    LET U1 == set_user_class(upsert_user(EmptyUsers, 1, "ann", "Ann", Today0),
                             1, CLASSES[1])
    IN  {U1, set_user_class(upsert_user(U1, 2, "ann", "Ann", Today0),
                            2, CLASSES[2])}

InitWindow ==
    /\ users \in EdgeUsers
    /\ checkins \in {TableOf(S) : S \in {T \in SUBSET EdgeTriples :
                                            Cardinality(T) <= MaxMarks}}
    /\ today \in {Today0, DayNext}
    /\ reply = NoReply
    /\ tasks = NoTasks
    /\ ping = IdlePing
    /\ probe = NoProbe

NextWindow == MenuSchoolStats

SpecWindow == InitWindow /\ [][NextWindow]_vars

(***************************************************************************)
(* What the claims say, in their own terms.                                *)
(***************************************************************************)
Marks == BagToSet(checkins)

Registered == DOMAIN users

Members(g) == {u \in Registered : users[u].class_name = g}

\* The 7 consecutive calendar days ending today.
InWindow(d) == today - (WindowDays - 1) <= d /\ d <= today

WindowMarksOf(g) ==
    Cardinality({r \in Marks : r.user_id \in Members(g) /\ InWindow(r.day)})

MarksOwnedBy(S) == Cardinality({r \in Marks : r.user_id \in S})

\* C7: whenever some group has a member with a mark on a day of the 7-day
\* window, the most-active-group result of the school statistics is a group
\* whose in-window mark count is maximal over all groups, with that count.
C7_MostActiveIsMaximal ==
    (reply.kind = "school" /\ \E g \in Range(CLASSES) : WindowMarksOf(g) > 0)
    => /\ reply.top_class[1] \in Range(CLASSES)
       /\ reply.top_class[2] = WindowMarksOf(reply.top_class[1])
       /\ \A g \in Range(CLASSES) : WindowMarksOf(g) <= reply.top_class[2]

\* C8: when no mark has its day in the 7-day window, the most-active-group
\* result of the school statistics is (none, 0), whatever marks exist
\* outside the window.
C8_EmptyWindowIsNone ==
    (reply.kind = "school" /\ \A r \in Marks : ~InWindow(r.day))
    => reply.top_class = <<None, 0>>

C8_Witness ==
    /\ reply.kind = "school"
    /\ \E r \in Marks : r.user_id \in Registered
                        /\ users[r.user_id].class_name # None
    /\ \A r \in Marks : ~InWindow(r.day)
    /\ reply.top_class = <<None, 0>>

\* C9: get_group_stats filtered by a group G returns totalMarks equal to the
\* number of marks owned by the users whose current group is G, and with no
\* filter the number of marks owned by all registered users, which is at
\* least the sum of the per-group totals; the summaries sent carry these
\* numbers.
C9_TotalMarks ==
    /\ \A g \in Range(CLASSES) :
         \A st \in get_group_stats(users, checkins, <<g>>) :
            st.total_actions = MarksOwnedBy(Members(g))
    /\ \A st \in get_group_stats(users, checkins, <<>>) :
         /\ st.total_actions = MarksOwnedBy(Registered)
         /\ st.total_actions >= MarksOwnedBy(Members(CLASSES[1]))
                                 + MarksOwnedBy(Members(CLASSES[2]))
    /\ (reply.kind = "class_stats" /\ reply.markup = "main_menu")
         => reply.total_actions = MarksOwnedBy(Members(reply.class_name))
    /\ reply.kind = "school" => reply.total_actions = MarksOwnedBy(Registered)

C9_Witness ==
    /\ reply.kind = "class_stats"
    /\ reply.markup = "main_menu"
    /\ reply.total_actions = 2
    /\ MarksOwnedBy(Registered) = 3
    /\ \E g \in Range(CLASSES) : g # reply.class_name
                                 /\ MarksOwnedBy(Members(g)) = 1

\* C10: the memberCount of get_group_stats with no filter is the number of
\* registered users, those with no group included.
C10_MemberCountAll ==
    /\ \A st \in get_group_stats(users, checkins, <<>>) :
         st.users_count = Cardinality(Registered)
    /\ reply.kind = "school" => reply.users_count = Cardinality(Registered)

C10_Witness ==
    /\ reply.kind = "school"
    /\ \E u \in Registered : users[u].class_name = None
    /\ \E u \in Registered : users[u].class_name # None
    /\ reply.users_count = Cardinality(Registered)

Present(uid, day_str, key) == BagIn(CheckinRow(uid, day_str, key), checkins)

WrittenOn(tr) == {t \in Written : TaskTriple(t) = tr}

IsLatest(t) ==
    \A o \in WrittenOn(TaskTriple(t)) : tasks[o].order <= tasks[t].order

\* C1: starting from the empty store, under any toggles by any users, a mark
\* for (U, D, H) exists iff the most recent toggle of (U, D, H) turned it on,
\* which is what that toggle reports ("marked"); a triple never toggled, or
\* whose most recent toggle turned it off ("unmarked"), has no mark.
C1_MarkIffLastToggleOn ==
    /\ \A u \in UserIds, d \in RaceDays, k \in Keys :
         Present(u, d, k) <=> \E t \in WrittenOn(<<u, d, k>>) :
                                 IsLatest(t) /\ tasks[t].new_state
    /\ \A t \in DOMAIN tasks :
         tasks[t].pc = "done" =>
            (tasks[t].answer = "marked" <=> tasks[t].new_state)

C1_Witness ==
    \E a, b, c \in DOMAIN tasks :
        /\ tasks[a].uid # tasks[b].uid
        /\ TaskTriple(b) = TaskTriple(c)
        /\ tasks[a].answer = "marked"
        /\ tasks[b].answer = "marked"
        /\ tasks[c].answer = "unmarked"
        /\ IsLatest(a) /\ IsLatest(c)
        /\ Present(tasks[a].uid, tasks[a].day, tasks[a].key)
        /\ ~Present(tasks[c].uid, tasks[c].day, tasks[c].key)

\* b's write is the next write of the same triple after a's.
NextWrite(a, b) ==
    /\ TaskTriple(a) = TaskTriple(b)
    /\ tasks[a].order < tasks[b].order
    /\ \A o \in WrittenOn(TaskTriple(a)) :
          ~(tasks[a].order < tasks[o].order /\ tasks[o].order < tasks[b].order)

\* C2: two toggles of the same (user, day, habit) handled concurrently lose
\* no toggle: the second reads what the first wrote, so they turn the mark
\* to opposite states and report opposite states, and once both have written
\* the mark's presence is what the first one read.
C2_NoLostToggle ==
    \A a, b \in Written :
        NextWrite(a, b) =>
            /\ tasks[b].seen = tasks[a].new_state
            /\ tasks[a].new_state # tasks[b].new_state
            /\ (tasks[a].pc = "done" /\ tasks[b].pc = "done")
                  => tasks[a].answer # tasks[b].answer
            /\ IsLatest(b) => (Present(tasks[a].uid, tasks[a].day, tasks[a].key)
                                  <=> tasks[a].seen)

C2_Witness ==
    \E a, b \in DOMAIN tasks :
        /\ NextWrite(a, b)
        /\ tasks[a].raced /\ tasks[b].raced
        /\ tasks[a].pc = "done" /\ tasks[b].pc = "done"
        /\ tasks[a].answer = "marked" /\ tasks[b].answer = "unmarked"
        /\ IsLatest(b)
        /\ ~Present(tasks[a].uid, tasks[a].day, tasks[a].key)

\* C3: the toggle is an involution: applied twice to the same (u, d, h) with
\* no other write in between, it leaves the presence of the (u, d, h) mark,
\* and the whole checkins table, as they were before the first toggle.
C3_ToggleInvolution ==
    (probe.op = "toggle" /\ probe.calls = 2)
    => /\ checkins = probe.before
       /\ BagIn(CheckinRow(probe.arg[1], probe.arg[2], probe.arg[3]), checkins)
            <=> BagIn(CheckinRow(probe.arg[1], probe.arg[2], probe.arg[3]),
                      probe.before)

C3_Witness ==
    /\ probe.op = "toggle"
    /\ probe.calls = 2
    /\ BagIn(CheckinRow(probe.arg[1], probe.arg[2], probe.arg[3]), probe.before)
    /\ ~BagIn(CheckinRow(probe.arg[1], probe.arg[2], probe.arg[3]), probe.once)
    /\ BagCardinality(probe.before) >= 2
    /\ checkins = probe.before

\* C4: set_habit is idempotent for each target value: called twice with the
\* same (u, d, h, enabled) it leaves the table as one call does, a redundant
\* call included, and checkins never holds more than one mark for the same
\* (user, day, habit).
C4_SetHabitIdempotent ==
    /\ (probe.op = "set_habit" /\ probe.calls = 2) => checkins = probe.once
    /\ \A r \in DOMAIN checkins : checkins[r] = 1

C4_Witness ==
    /\ probe.op = "set_habit"
    /\ probe.calls = 2
    /\ probe.arg[4]
    /\ BagIn(CheckinRow(probe.arg[1], probe.arg[2], probe.arg[3]), probe.before)
    /\ checkins = probe.before
    /\ BagCardinality(checkins) >= 2

Running == ping.pc = "running"

Finished == ping.pc = "done"

GroupPrompts ==
    {u \in ping.listed : \E i \in DOMAIN ping.sent[u] :
                            ping.sent[u][i].prompt.markup = "class_pick"}

CheckinPrompts ==
    {u \in ping.listed : \E i \in DOMAIN ping.sent[u] :
                            ping.sent[u][i].prompt.markup = "habits"}

Ungrouped == {u \in Registered : users[u].class_name = None}

OnePromptEach ==
    (Running \/ Finished)
    => \A u \in ping.listed :
          /\ Len(ping.sent[u]) = IF u \in ping.pending THEN 0 ELSE 1
          /\ u \in CheckinPrompts => u \notin Ungrouped
          /\ (u \in GroupPrompts /\ ~ping.dirty) => u \in Ungrouped

PromptCounts ==
    Finished
    => /\ ping.pending = {}
       /\ Cardinality(GroupPrompts) + Cardinality(CheckinPrompts)
            = Cardinality(ping.listed)
       /\ ~ping.dirty
            => /\ Cardinality(GroupPrompts)
                    = Cardinality(ping.listed \cap Ungrouped)
               /\ Cardinality(CheckinPrompts)
                    = Cardinality(ping.listed)
                        - Cardinality(ping.listed \cap Ungrouped)

\* C5: one run of evening_ping over the N listed users attempts exactly one
\* prompt per listed user, a group-selection prompt for a user with no group
\* when visited and a check-in prompt for a user with a group; with M
\* ungrouped users and no concurrent change it issues M group prompts and
\* N - M check-in prompts; and the run terminates.
C5_OnePromptPerUser ==
    /\ [](OnePromptEach /\ PromptCounts)
    /\ Running ~> Finished

C5_Witness ==
    /\ Finished
    /\ ~ping.dirty
    /\ Cardinality(ping.listed) >= 2
    /\ Cardinality(GroupPrompts) = 1
    /\ Cardinality(CheckinPrompts) = Cardinality(ping.listed) - 1

Attempted(u) ==
    /\ Running \/ Finished
    /\ u \in ping.listed \ ping.pending
    /\ Len(ping.sent[u]) >= 1

\* C6: in a reminder run a delivery failure for any subset of the users never
\* stops the batch: a send is eventually attempted for every listed user,
\* whichever sends fail, and the run completes without the failure reaching
\* its caller.
C6_FailureDoesNotStopBatch ==
    /\ \A u \in UserIds : (Running /\ u \in ping.pending) ~> Attempted(u)
    /\ Running ~> (Finished /\ \A u \in ping.listed : Attempted(u))
    /\ [](ping.pc \in {"idle", "running", "done"})

C6_Witness ==
    /\ Finished
    /\ \E u, v \in ping.listed :
          /\ ~ping.sent[u][1].ok
          /\ ping.sent[v][1].ok
    /\ \A u \in ping.listed : Attempted(u)

\* The marks a statistics view aggregates: the asking user's for "my", those
\* of the members of the asker's class for the class summary, those of all
\* registered users for the school summary.
IsSummary ==
    \/ reply.kind \in {"my", "school"}
    \/ reply.kind = "class_stats" /\ reply.markup = "main_menu"

Aggregated ==
    IF reply.kind = "my" THEN {r \in Marks : r.user_id = reply.user}
    ELSE IF reply.kind = "class_stats"
         THEN {r \in Marks : r.user_id \in Members(reply.class_name)}
         ELSE {r \in Marks : r.user_id \in Registered}

HabitCount(A, k) == Cardinality({r \in A : r.habit_key = k})

\* C11: the top-habits list of every statistics view has at most 3 entries,
\* each a distinct habit with its mark count (at least 1) in the aggregated
\* set, in descending order of count and with no unlisted habit counting
\* more than a listed one; it has fewer than 3 entries only when fewer than
\* 3 distinct habits have marks; and the "no data" placeholder is shown
\* exactly when no habit has a mark.
C11_TopHabits ==
    IsSummary =>
        LET A == Aggregated
            H == {r.habit_key : r \in A}
            L == reply.top.lines
        IN  /\ Len(L) <= 3
            /\ Len(L) = IF Cardinality(H) < 3 THEN Cardinality(H) ELSE 3
            /\ \A i \in DOMAIN L :
                  \E k \in H : /\ L[i] = <<habit_label(k), HabitCount(A, k)>>
                                /\ L[i][2] >= 1
            /\ \A i, j \in DOMAIN L :
                  i < j => (L[i][2] >= L[j][2] /\ L[i][1] # L[j][1])
            /\ \A k \in H :
                  (\A i \in DOMAIN L : L[i][1] # habit_label(k))
                  => \A i \in DOMAIN L : L[i][2] >= HabitCount(A, k)
            /\ reply.top.placeholder <=> H = {}

C11_Witness ==
    /\ IsSummary
    /\ reply.kind = "class_stats"
    /\ Cardinality({r.habit_key : r \in Aggregated}) = 4
    /\ Len(reply.top.lines) = 3
    /\ reply.top.lines[1][2] = 2
    /\ reply.top.lines[3][2] = 1
    /\ ~reply.top.placeholder

MarksOf(u) == {r \in Marks : r.user_id = u}

\* The per-habit rows as a bag of habits: its cardinality is the sum of the
\* counts.
CountsBag(b) ==
    [k \in {b[i][1] : i \in DOMAIN b} |->
        b[CHOOSE i \in DOMAIN b : b[i][1] = k][2]]

\* C12: in every store state and for every user u, get_user_stats(u) returns
\* the number of u's marks, the number of distinct days among them, and one
\* row per habit u has marked with its count, in descending order of count
\* and summing to the total; for a user with no marks, registered or not, it
\* returns (0, 0, []); "my statistics" shows these numbers.
C12_UserStats ==
    /\ \A u \in UserIds :
         /\ get_user_stats(checkins, u) # {}
         /\ \A st \in get_user_stats(checkins, u) :
              LET b == st.by_habit
              IN  /\ st.total = Cardinality(MarksOf(u))
                  /\ st.days = Cardinality({r.day : r \in MarksOf(u)})
                  /\ \A i \in DOMAIN b :
                        /\ b[i][2] = HabitCount(MarksOf(u), b[i][1])
                        /\ b[i][2] >= 1
                  /\ \A i, j \in DOMAIN b :
                        i < j => (b[i][2] >= b[j][2] /\ b[i][1] # b[j][1])
                  /\ BagCardinality(CountsBag(b)) = st.total
                  /\ MarksOf(u) = {}
                        => st = [total |-> 0, days |-> 0, by_habit |-> <<>>]
    /\ reply.kind = "my"
         => /\ reply.total = Cardinality(MarksOf(reply.user))
            /\ reply.days = Cardinality({r.day : r \in MarksOf(reply.user)})

C12_Witness ==
    /\ reply.kind = "my"
    /\ reply.user \notin Registered
    /\ reply.total = 3
    /\ reply.days = 2
    /\ Len(reply.top.lines) = 2
    /\ \E v \in UserIds \ Registered :
          get_user_stats(checkins, v)
            = {[total |-> 0, days |-> 0, by_habit |-> <<>>]}

\* What upsert_user would write in the current state, for any user and name.
UpsertFrame ==
    \A u \in UserIds, n \in UserNames :
        LET U1 == upsert_user(users, u, n[1], n[2], today)
        IN  /\ DOMAIN U1 = Registered \cup {u}
            /\ \A v \in Registered \ {u} : U1[v] = users[v]
            /\ u \in Registered
                  => /\ U1[u].class_name = users[u].class_name
                     /\ U1[u].joined_at = users[u].joined_at
                     /\ U1[u].username = n[1]
                     /\ U1[u].first_name = n[2]
            /\ u \notin Registered => U1[u] = UserRow(n[1], n[2], None, today)

\* What a step keeps of every registered user.
GroupKept ==
    \A u \in Registered :
        /\ u \in DOMAIN users'
        /\ users'[u].joined_at = users[u].joined_at
        /\ users[u].class_name # None => users'[u].class_name # None

\* C13: upsert_user on a registered user changes only username and
\* first_name (class and join timestamp stay, other users' rows stay), and on
\* an unknown user creates the row with no class; and in every step of every
\* handler a registered user stays registered with the same join timestamp,
\* and a user whose class is set keeps a class.
C13_UpsertKeepsGroup == []UpsertFrame /\ [][GroupKept]_vars

C13_Witness ==
    /\ reply.kind = "start"
    /\ reply.markup = "main_menu"
    /\ users[reply.user].joined_at < today
    /\ users[reply.user].username = None
    /\ \E v \in Registered : /\ users[v].class_name = None
                              /\ users[v].joined_at = today

StoredClasses ==
    \A u \in Registered : users[u].class_name \in {None} \cup Range(CLASSES)

\* What the last class selection answered, against the store it left.
SavedIsStored ==
    reply.kind = "class"
    => IF reply.class_name \in Range(CLASSES)
       THEN /\ reply.saved
            /\ reply.user \in Registered
            /\ users[reply.user].class_name = reply.class_name
       ELSE ~reply.saved

SelectionStep ==
    \A u \in UserIds, n \in Names, c \in ClassData :
        cb_setclass(u, n[1], n[2], c)
        => IF c \in Range(CLASSES)
           THEN /\ u \in DOMAIN users'
                /\ users'[u].class_name = c
                /\ \A v \in Registered \ {u} :
                      v \in DOMAIN users' /\ users'[v] = users[v]
                /\ checkins' = checkins
           ELSE /\ users' = users
                /\ checkins' = checkins
                /\ ~reply'.saved

\* C14: a class selection whose class is not in CLASSES is rejected and
\* changes neither users (the selecting user is not registered by it, no
\* class changes) nor checkins; every stored class is none or a class of
\* CLASSES; a selection of a class of CLASSES leaves the selecting user
\* registered with that class, whatever the user's state before, and leaves
\* the other users and checkins alone.
C14_InvalidGroupRejected ==
    [](StoredClasses /\ SavedIsStored) /\ [][SelectionStep]_vars

C14_Witness ==
    /\ reply.kind = "class"
    /\ ~reply.saved
    /\ reply.class_name \notin Range(CLASSES)
    /\ reply.user \notin Registered
    /\ \E r \in Marks : r.user_id = reply.user
    /\ \E v \in Registered : users[v].class_name = CLASSES[2]

\* The answer to the last check-in request, against the asker's class.
CheckinAnswer ==
    reply.kind = "checkin"
    => IF get_user_class(users, reply.user) = None
       THEN reply.markup = "class_pick"
       ELSE /\ reply.markup = "habits"
            /\ reply.day = today
            /\ reply.kb = habits_kb(checkins, reply.user, today)

\* The answer to the last class-statistics request.
ClassStatsAnswer ==
    reply.kind = "class_stats"
    => IF get_user_class(users, reply.user) = None
       THEN reply.markup = "class_pick"
       ELSE /\ reply.markup = "main_menu"
            /\ reply.class_name = users[reply.user].class_name
            /\ reply.users_count = Cardinality(Members(reply.class_name))
            /\ reply.total_actions = MarksOwnedBy(Members(reply.class_name))

\* What a visit of the reminder sends, against the class at the visit.
VisitStep ==
    \A u \in UserIds, ok \in BOOLEAN :
        evening_ping_visit(u, ok)
        => LET sent == ping'.sent[u]
           IN  /\ Len(sent) = Len(ping.sent[u]) + 1
               /\ IF get_user_class(users, u) = None
                  THEN sent[Len(sent)].prompt.markup = "class_pick"
                  ELSE /\ sent[Len(sent)].prompt.markup = "habits"
                       /\ sent[Len(sent)].prompt.kb
                             = habits_kb(checkins, u, ping.day_str)

\* C15: a user with no class (an unknown user included) gets the class
\* selection prompt, never the habit list or a class summary, from a
\* check-in request, a class-statistics request and a visit of the
\* reminder; a user with a class gets the habit list, or the summary of the
\* class the user has at that moment.
C15_NoGroupNoResult ==
    /\ [](CheckinAnswer /\ ClassStatsAnswer)
    /\ []((Running \/ Finished)
            => \A u \in CheckinPrompts : get_user_class(users, u) # None)
    /\ [][VisitStep]_vars

C15_Witness ==
    /\ reply.kind = "class_stats"
    /\ reply.markup = "class_pick"
    /\ Finished
    /\ reply.user \in GroupPrompts
    /\ users[reply.user].class_name = None
    /\ \E v \in CheckinPrompts : users[v].class_name = CLASSES[2]

\* C16: in every reachable state, the user_id of every row of checkins is the
\* user_id of a row of users (toggles and done callbacks of users that never
\* made first contact included).
C16_MarksOwnedByRegistered == \A r \in Marks : r.user_id \in Registered

\* The last update was one of the interactions of the list: first contact,
\* set-class, a class chosen and saved, a check-in request, a toggle (its
\* edit failing or not), check-in done, and the three statistics requests.
Interacted ==
    \/ reply.kind \in {"start", "setclass", "checkin", "toggle", "failed",
                        "done", "my", "class_stats", "school"}
    \/ reply.kind = "class" /\ reply.saved

\* C17: after any inbound interaction by user u, by command, menu button or
\* callback, u is a row of users.
C17_UpsertOnEveryInteraction == Interacted => reply.user \in Registered

\* A step of an operation that only reads: the summaries asked by menu
\* button, check-in done, and the three segments of the reminder.
ReaderStep ==
    \/ \E u \in UserIds : \/ menu_my_stats(u)
                           \/ send_class_stats(u)
                           \/ send_school_stats(u)
                           \/ cb_done(u, today)
    \/ evening_ping_start
    \/ \E u \in UserIds, ok \in BOOLEAN : evening_ping_visit(u, ok)
    \/ evening_ping_return

\* /stats: upsert_user, then send_my_stats.
StatsStep ==
    \A u \in UserIds, n \in Names :
        \/ /\ users' = upsert_user(users, u, n[1], n[2], today)
           /\ checkins' = checkins
        \/ ~cmd_stats(u, n[1], n[2])

\* C18: send_my_stats, send_class_stats, send_school_stats, cb_done and every
\* segment of evening_ping leave users and checkins as they are, in every
\* state and whatever handlers run between them; under /stats the store
\* changes by the upsert alone.
C18_ReadersWriteNothing ==
    [][(UNCHANGED <<users, checkins>> \/ ~ReaderStep) /\ StatsStep]_vars

C18_Witness ==
    /\ reply.kind = "school"
    /\ reply.total_actions >= 1
    /\ Finished
    /\ CheckinPrompts # {}
    /\ \E u \in ping.listed :
          /\ ping.sent[u][1].prompt.markup = "habits"
          /\ ping.sent[u][1].prompt.kb.checked = {}
          /\ Present(u, today, HABITS[2][1])
    /\ Registered # ping.listed

\* Every check-in prompt of the current run names day d, in its text and in
\* its buttons.
RunPromptsOn(d) ==
    \A u \in CheckinPrompts :
        \A i \in DOMAIN ping.sent[u] :
            ping.sent[u][i].prompt.markup = "habits"
            => /\ ping.sent[u][i].prompt.day = d
               /\ ping.sent[u][i].prompt.kb.day = d

\* C19: in one run of evening_ping the day is read once, when the run
\* starts: every check-in prompt of the run names that day in its text and
\* carries it in its toggle and done buttons, whatever the date has become
\* and whichever handlers ran in between.
C19_OneDayPerRun ==
    /\ []((Running \/ Finished) => RunPromptsOn(ping.day_str))
    /\ [][evening_ping_start => ping'.day_str = today]_vars

C19_Witness ==
    /\ Finished
    /\ Cardinality(CheckinPrompts) = 2
    /\ today = ping.day_str + 1
    /\ reply.kind = "checkin"
    /\ reply.markup = "habits"
    /\ reply.day = today
    /\ RunPromptsOn(today - 1)

\* The count the class query of the school summary returns for class g
\* (0 when it returns no row for g).
Ranked(g) ==
    LET rows == {r \in ClassRows(users, checkins, today) : r[1] = g}
    IN  IF rows = {} THEN 0 ELSE (CHOOSE r \in rows : TRUE)[2]

\* The marks of the members of g dated today - 6 .. today.
LastSevenDays(g) ==
    {r \in Marks : /\ r.user_id \in Members(g)
                   /\ today - 6 <= r.day
                   /\ r.day <= today}

\* C20: the ranking of the school summary counts, for every class, exactly
\* the marks of its members dated d with today - 6 <= d <= today: a mark
\* dated today - 7 or earlier, or after today, is never counted, a mark
\* dated today - 6 or today always is; the count shown for the most active
\* class is this count.
C20_WindowExact ==
    /\ \A g \in Range(CLASSES) \cup {None} :
          Ranked(g) = Cardinality(LastSevenDays(g))
    /\ (reply.kind = "school" /\ reply.top_class[1] # None)
          => reply.top_class[2] = Cardinality(LastSevenDays(reply.top_class[1]))

C20_Witness ==
    /\ reply.kind = "school"
    /\ reply.top_class = <<CLASSES[1], 2>>
    /\ MarksOwnedBy(Members(CLASSES[1])) = 3
    /\ \E r \in Marks : r.day = today - 7 \/ r.day = today + 1
    /\ \E r \in Marks : r.day = today - 6
    /\ \E r \in Marks : r.day = today

====
